---- MODULE Spec2Model ----
(***************************************************************************)
(* A model of src/main.py: the Spotify URL parser, the catalog adapter,    *)
(* the filename derivation, download_song and the orchestrator main() with *)
(* its ThreadPoolExecutor fan-out.                                         *)
(*                                                                         *)
(* A Python str is a sequence of one-character strings, so that the regex  *)
(* search, the substitution of sanitize_filename and os.path.join are      *)
(* computed character by character.  None and a missing dictionary key are *)
(* the one-element sequences None and Absent, which no str equals.         *)
(***************************************************************************)
EXTENDS Integers, Sequences, FiniteSets, TLC

VARIABLES
    url,            \* the line read by input(), main.py:117
    svc,            \* what the catalog service holds for the identifier
    pc,             \* the position of main()
    parsed,         \* (url_type, spotify_id), main.py:118
    calls,          \* the requests issued to the catalog service, in order
    items,          \* items of get_items_from_spotify, main.py:78
    collection_name,\* name of get_items_from_spotify, main.py:79
    cursor,         \* the position of the album loop, main.py:90
    dirs,           \* the directories that exist on disk
    files,          \* the files that exist on disk
    made,           \* the arguments of the os.makedirs calls, in order
    folder,         \* the directory handed to download_song
    mode,           \* which branch of main.py:134 was taken
    tasks,          \* one record per download_song call (futures, or the inline call)
    finished,       \* the indices of the tasks in completion order
    collected,      \* how many futures the loop of main.py:166 has consumed
    downloaded,     \* downloaded, main.py:162
    report,         \* what main() logged last, main.py:120-174
    nameIn,         \* the track record given to the filename derivation
    nameOut         \* the base filename derived from nameIn

vars == <<url, svc, pc, parsed, calls, items, collection_name, cursor, dirs,
          files, made, folder, mode, tasks, finished, collected, downloaded,
          report, nameIn, nameOut>>

restVars == <<svc, parsed, calls, items, collection_name, cursor, dirs,
                   files, made, folder, mode, tasks, finished, collected,
                   downloaded, report>>

nameVars == <<nameIn, nameOut>>

----------------------------------------------------------------------------
(* Bounds of the model. *)

MaxTracks == 2
MaxTitleLen == 2
MaxArtists == 2

----------------------------------------------------------------------------
(* Python values. *)

None == <<"None">>
Absent == <<"Absent">>

Range(s) == {s[i] : i \in 1..Len(s)}

\* dict.get(key, default): a dictionary is a record whose field has holds its keys
Get(d, key, default) == IF key \in d.has THEN d[key] ELSE default

\* ", ".join(names)
RECURSIVE JoinNames(_)
JoinNames(names) ==
    IF names = <<>> THEN <<>>
    ELSE IF Len(names) = 1 THEN Head(names)
    ELSE Head(names) \o <<",", " ">> \o JoinNames(Tail(names))

----------------------------------------------------------------------------
(* extract_spotify_id, main.py:13-22 *)

Lower == {"a","b","c","d","e","f","g","h","i","j","k","l","m",
          "n","o","p","q","r","s","t","u","v","w","x","y","z"}
Upper == {"A","B","C","D","E","F","G","H","I","J","K","L","M",
          "N","O","P","Q","R","S","T","U","V","W","X","Y","Z"}
Digit == {"0","1","2","3","4","5","6","7","8","9"}
AlNum == Lower \cup Upper \cup Digit

Host == <<"o","p","e","n",".","s","p","o","t","i","f","y",".","c","o","m","/">>
TypeTrack == <<"t","r","a","c","k">>
TypeAlbum == <<"a","l","b","u","m">>
TypePlaylist == <<"p","l","a","y","l","i","s","t">>
\* the alternation (track|album|playlist), tried left to right
UrlTypes == <<TypeTrack, TypeAlbum, TypePlaylist>>

StartsWithAt(s, i, p) ==
    /\ i + Len(p) - 1 <= Len(s)
    /\ \A k \in 1..Len(p) : s[i + k - 1] = p[k]

\* [a-zA-Z0-9]+ is greedy: the longest run of alphanumerics from position i
RECURSIVE AlNumRun(_, _)
AlNumRun(s, i) ==
    IF i <= Len(s) /\ s[i] \in AlNum THEN <<s[i]>> \o AlNumRun(s, i + 1) ELSE <<>>

\* the pattern matched at position i with alternative t
MatchesAt(s, i, t) ==
    /\ StartsWithAt(s, i, Host \o UrlTypes[t] \o <<"/">>)
    /\ AlNumRun(s, i + Len(Host) + Len(UrlTypes[t]) + 1) # <<>>

MatchGroups(s, i, t) ==
    <<UrlTypes[t], AlNumRun(s, i + Len(Host) + Len(UrlTypes[t]) + 1)>>

\* re.search: the leftmost position at which the pattern matches
SearchFrom(s) ==
    LET hits == {i \in 1..Len(s) : \E t \in 1..Len(UrlTypes) : MatchesAt(s, i, t)}
    IN  IF hits = {} THEN 0
        ELSE CHOOSE i \in hits : \A j \in hits : i <= j

\* re.match would anchor the pattern at the start of the string
AnchoredSpotifyId(s) ==
    IF \E t \in 1..Len(UrlTypes) : MatchesAt(s, 1, t)
    THEN MatchGroups(s, 1, CHOOSE t \in 1..Len(UrlTypes) : MatchesAt(s, 1, t))
    ELSE <<None, None>>

extract_spotify_id(s) ==
    LET i == SearchFrom(s)
    IN  IF i = 0 THEN <<None, None>>
        ELSE MatchGroups(s, i,
               CHOOSE t \in 1..Len(UrlTypes) :
                   /\ MatchesAt(s, i, t)
                   /\ \A u \in 1..Len(UrlTypes) : MatchesAt(s, i, u) => t <= u)

\* str.strip() of the input line (blanks are the only whitespace modelled)
RECURSIVE LStrip(_)
LStrip(s) == IF s # <<>> /\ Head(s) = " " THEN LStrip(Tail(s)) ELSE s
RECURSIVE RStrip(_)
RStrip(s) == IF s # <<>> /\ s[Len(s)] = " " THEN RStrip(SubSeq(s, 1, Len(s) - 1)) ELSE s
Strip(s) == RStrip(LStrip(s))

----------------------------------------------------------------------------
(* build_query and sanitize_filename, main.py:24-32 *)

Illegal == {"\\", "/", "*", "?", ":", "\"", "<", ">", "|"}

IsLegal(c) == c \notin Illegal

sanitize_filename(name) == SelectSeq(name, IsLegal)

ArtistNames(track) == JoinNames(Get(track, "artists", <<>>))

build_query(track) ==
    ArtistNames(track) \o <<" ", "-", " ">> \o Get(track, "name", <<>>)
        \o <<" ","o","f","f","i","c","i","a","l"," ","a","u","d","i","o">>

\* f"{artist} - {title}" without the separator
UnseparatedName(track) == sanitize_filename(ArtistNames(track) \o Get(track, "name", <<>>))

\* base_filename of main.py:138-140 and base_fn of main.py:156-158
BaseFilename(track) ==
    sanitize_filename(ArtistNames(track) \o <<" ", "-", " ">> \o Get(track, "name", <<>>))

----------------------------------------------------------------------------
(* os.path and the file system, main.py:40-42, 65, 129-131, 148-150 *)

\* os.path.join(a, b)
PathJoin(a, b) ==
    IF b # <<>> /\ Head(b) = "/" THEN b
    ELSE IF a = <<>> \/ a[Len(a)] = "/" THEN a \o b
    ELSE a \o <<"/">> \o b

\* the components of a path string, split at "/"
RECURSIVE Segments(_, _, _)
Segments(s, from, i) ==
    IF i > Len(s) THEN <<SubSeq(s, from, Len(s))>>
    ELSE IF s[i] = "/" THEN <<SubSeq(s, from, i - 1)>> \o Segments(s, i + 1, i + 1)
    ELSE Segments(s, from, i + 1)

\* path resolution: empty components and "." are skipped, ".." goes up
RECURSIVE Normalize(_, _)
Normalize(segs, acc) ==
    IF segs = <<>> THEN acc
    ELSE IF Head(segs) \in {<<>>, <<".">>} THEN Normalize(Tail(segs), acc)
    ELSE IF Head(segs) = <<".", ".">>
         THEN Normalize(Tail(segs),
                        IF acc = <<>> THEN acc ELSE SubSeq(acc, 1, Len(acc) - 1))
    ELSE Normalize(Tail(segs), Append(acc, Head(segs)))

Resolve(path) == Normalize(Segments(path, 1, 1), <<>>)

\* os.path.exists(path)
Exists(path, ds, fs) == Resolve(path) \in ds \cup fs

\* os.makedirs(path): the directory and its missing ancestors
MakeDirs(path, ds) ==
    ds \cup {SubSeq(Resolve(path), 1, k) : k \in 0..Len(Resolve(path))}

\* os.getcwd()
Cwd == <<"/", "w">>

\* downloads_dir, main.py:129
DownloadsDir == PathJoin(Cwd, <<"d","o","w","n","l","o","a","d","s">>)

\* collection_folder, main.py:148
CollectionFolder(name) == PathJoin(DownloadsDir, sanitize_filename(name))

Mp3 == <<".", "m", "p", "3">>
Webm == <<".", "w", "e", "b", "m">>

\* final_path, main.py:41-42
FinalPath(dir, base) == PathJoin(dir, base \o Mp3)

\* what the extractor leaves when the final file gets another name
StrayPath(dir, base) == PathJoin(dir, base \o Webm)

\* the path is reported without looking at the disk
AssumeWritten(path, ds, fs) == path

\* main.py:65-66 (and the fall-through to line 69)
ExistsCheck(path, ds, fs) == IF Exists(path, ds, fs) THEN path ELSE None

----------------------------------------------------------------------------
(* The catalog service as seen through spotipy, main.py:82-101 *)

T1 == <<"t", "1">>
T2 == <<"t", "2">>
T3 == <<"t", "3">>
TrackIds == {T1, T2, T3}

\* sp.track(tid)
Catalog(tid) ==
    CASE tid = T1 -> [has |-> {"artists", "name"},
                      artists |-> << <<"A">> >>, name |-> <<"b">>]
      [] tid = T2 -> [has |-> {"artists", "name"},
                      artists |-> << <<"A">> >>, name |-> <<"b", "?">>]
      [] OTHER    -> [has |-> {"artists"},
                      artists |-> << <<"x">>, <<"/">> >>, name |-> <<>>]

UnknownTrack == <<"U","n","k","n","o","w","n"," ","T","r","a","c","k">>
UnknownAlbum == <<"U","n","k","n","o","w","n"," ","A","l","b","u","m">>
UnknownPlaylist == <<"U","n","k","n","o","w","n"," ","P","l","a","y","l","i","s","t">>

\* the display names a collection may carry
CollectionNames ==
    {[has |-> {"name"}, name |-> n] : n \in {<<"m", "/", "x">>, <<"?">>}}
        \cup {[has |-> {}, name |-> <<>>]}

\* an entry of an album listing is a track_info whose "id" is the entry; an
\* entry of a playlist is an item whose "track" is Catalog(entry), or None
Listings == UNION {[1..n -> TrackIds \cup {Absent}] : n \in 0..MaxTracks}

\* Python truthiness of a str-or-None value, main.py:92 and 100
Truthy(v) == v \notin {Absent, None, <<>>}

\* every listed entry is looked up, identifier or not
AlwaysLookup(tid) == TRUE

\* main.py:92
NeedsLookup(tid) == Truthy(tid)

\* main.py:98-101
RECURSIVE EmbeddedTracks(_)
EmbeddedTracks(entries) ==
    IF entries = <<>> THEN <<>>
    ELSE IF Truthy(Head(entries))
         THEN <<Catalog(Head(entries))>> \o EmbeddedTracks(Tail(entries))
         ELSE EmbeddedTracks(Tail(entries))

----------------------------------------------------------------------------
(* main(), main.py:110-174: the inputs *)

Https == <<"h","t","t","p","s",":","/","/">>

\* the lines typed at the prompt
MainUrls ==
    { <<" ">> \o Https \o Host \o TypeTrack \o <<"/">> \o T1 \o <<"?","s","i","=","9"," ">>,
      Host \o TypeAlbum \o <<"/","a","l","1">>,
      Https \o Host \o TypePlaylist \o <<"/","p","l","1">>,
      Https \o Host \o <<"a","r","t","i","s","t","/","x","1">> }

IsCollectionUrl(u) == extract_spotify_id(Strip(u))[1] \in {TypeAlbum, TypePlaylist}

NoReport == [event |-> "none", count |-> 0]

NoTrack == [has |-> {}, artists |-> <<>>, name |-> <<>>]

\* a submitted call that has not started
NewTask(track, dir) ==
    [track |-> track, dir |-> dir, pc |-> "queued", query |-> None, base |-> None,
     final_path |-> None, found |-> FALSE, fetched |-> FALSE, result |-> None]

Init ==
    /\ url \in MainUrls
    /\ svc \in [meta : CollectionNames, entries : Listings]
    /\ IsCollectionUrl(url) \/ svc = [meta |-> [has |-> {}, name |-> <<>>], entries |-> <<>>]
    /\ pc = "ParseURL"
    /\ parsed = <<None, None>>
    /\ calls = <<>>
    /\ items = <<>>
    /\ collection_name = <<>>
    /\ cursor = 0
    /\ dirs \in {{<<>>, Resolve(Cwd)}, {<<>>, Resolve(Cwd), Resolve(DownloadsDir)}}
    /\ files = {}
    /\ made = <<>>
    /\ folder = None
    /\ mode = "none"
    /\ tasks = <<>>
    /\ finished = <<>>
    /\ collected = 0
    /\ downloaded = <<>>
    /\ report = NoReport
    /\ nameIn = NoTrack
    /\ nameOut = None

----------------------------------------------------------------------------
(* main.py:117-121 *)

ParseURL ==
    /\ pc = "ParseURL"
    /\ parsed' = extract_spotify_id(Strip(url))
    /\ IF ~Truthy(parsed'[1]) \/ ~Truthy(parsed'[2])
       THEN /\ report' = [event |-> "invalid_url", count |-> 0]
            /\ pc' = "Done"
       ELSE /\ report' = report
            /\ pc' = "FetchCatalog"
    /\ UNCHANGED <<url, svc, calls, items, collection_name, cursor, dirs, files,
                   made, folder, mode, tasks, finished, collected, downloaded,
                   nameVars>>

----------------------------------------------------------------------------
(* get_items_from_spotify, main.py:71-108, called at main.py:123-127 *)

\* an exception of the fetch that main() does not catch
FetchErrorEscapes == "Raised"

\* main.py:125-127: the exception re-raised at line 107 is logged, main returns
AfterFetchError == "Done"

FetchFailed ==
    /\ pc' = AfterFetchError
    /\ report' = [event |-> "fetch_failed", count |-> 0]

\* the first request: sp.track, sp.album or sp.playlist (lines 82, 86, 96)
FetchCatalog ==
    /\ pc = "FetchCatalog"
    /\ calls' = Append(calls, <<parsed[1], parsed[2]>>)
    /\ \E ok \in BOOLEAN :
        IF ~ok
        THEN FetchFailed /\ UNCHANGED <<items, collection_name>>
        ELSE /\ report' = report
             /\ CASE parsed[1] = TypeTrack ->
                       /\ items' = <<Catalog(parsed[2])>>
                       /\ collection_name' = Get(Catalog(parsed[2]), "name", UnknownTrack)
                       /\ pc' = "PreparePaths"
                  [] parsed[1] = TypeAlbum ->
                       /\ items' = <<>>
                       /\ collection_name' = Get(svc.meta, "name", UnknownAlbum)
                       /\ pc' = "AlbumTracks"
                  [] parsed[1] = TypePlaylist ->
                       /\ items' = EmbeddedTracks(svc.entries)
                       /\ collection_name' = Get(svc.meta, "name", UnknownPlaylist)
                       /\ pc' = "PreparePaths"
                  [] OTHER -> FetchFailed /\ UNCHANGED <<items, collection_name>>
    /\ UNCHANGED <<url, svc, parsed, cursor, dirs, files, made, folder, mode,
                   tasks, finished, collected, downloaded, nameVars>>

\* sp.album_tracks(spotify_id)['items'], line 88
AlbumTracks ==
    /\ pc = "AlbumTracks"
    /\ calls' = Append(calls, <<<<"album_tracks">>, parsed[2]>>)
    /\ \E ok \in BOOLEAN :
        IF ok THEN pc' = "AlbumLoop" /\ cursor' = 1 /\ report' = report
        ELSE FetchFailed /\ cursor' = cursor
    /\ UNCHANGED <<url, svc, parsed, items, collection_name, dirs, files, made,
                   folder, mode, tasks, finished, collected, downloaded, nameVars>>

\* one iteration of the loop of lines 90-94, or its end (line 104)
AlbumLoop ==
    /\ pc = "AlbumLoop"
    /\ IF cursor > Len(svc.entries)
       THEN /\ pc' = "PreparePaths"
            /\ UNCHANGED <<calls, items, cursor, report>>
       ELSE LET tid == svc.entries[cursor] IN
            IF ~NeedsLookup(tid)
            THEN /\ cursor' = cursor + 1
                 /\ UNCHANGED <<pc, calls, items, report>>
            ELSE /\ calls' = Append(calls, <<TypeTrack, tid>>)
                 /\ \E ok \in BOOLEAN :
                     IF ok
                     THEN /\ items' = Append(items, Catalog(tid))
                          /\ cursor' = cursor + 1
                          /\ UNCHANGED <<pc, report>>
                     ELSE FetchFailed /\ UNCHANGED <<items, cursor>>
    /\ UNCHANGED <<url, svc, parsed, collection_name, dirs, files, made, folder,
                   mode, tasks, finished, collected, downloaded, nameVars>>

----------------------------------------------------------------------------
(* main.py:129-150 *)

PreparePaths ==
    /\ pc = "PreparePaths"
    /\ IF ~Exists(DownloadsDir, dirs, files)
       THEN dirs' = MakeDirs(DownloadsDir, dirs) /\ made' = Append(made, DownloadsDir)
       ELSE UNCHANGED <<dirs, made>>
    /\ pc' = "Dispatch"
    /\ UNCHANGED <<url, svc, parsed, calls, items, collection_name, cursor, files,
                   folder, mode, tasks, finished, collected, downloaded, report,
                   nameVars>>

\* the condition of main.py:134
IsSingle(t, its) == t = TypeTrack \/ Len(its) = 1

Dispatch ==
    /\ pc = "Dispatch"
    /\ IF IsSingle(parsed[1], items)
       THEN /\ mode' = "single"
            /\ folder' = DownloadsDir
            /\ tasks' = <<NewTask(items[1], DownloadsDir)>>
            /\ pc' = "DownloadSingle"
            /\ UNCHANGED <<dirs, made>>
       ELSE /\ mode' = "many"
            /\ folder' = CollectionFolder(collection_name)
            /\ IF ~Exists(folder', dirs, files)
               THEN dirs' = MakeDirs(folder', dirs) /\ made' = Append(made, folder')
               ELSE UNCHANGED <<dirs, made>>
            /\ tasks' = <<>>
            /\ pc' = IF items = <<>> THEN "Collect" ELSE "Submit"
    /\ UNCHANGED <<url, svc, parsed, calls, items, collection_name, cursor, files,
                   finished, collected, downloaded, report, nameVars>>

\* executor.submit(process_track, track), main.py:165
Submit ==
    /\ pc = "Submit"
    /\ tasks' = Append(tasks, NewTask(items[Len(tasks) + 1], folder))
    /\ pc' = IF Len(tasks') = Len(items) THEN "Collect" ELSE "Submit"
    /\ UNCHANGED <<url, svc, parsed, calls, items, collection_name, cursor, dirs,
                   files, made, folder, mode, finished, collected, downloaded,
                   report, nameVars>>

----------------------------------------------------------------------------
(* process_track and download_song, main.py:34-69 and 136-141, 154-160 *)

Finish(t, res) == [t EXCEPT !.pc = "done", !.result = res]

\* main.py:67-69: the exception is logged and the call returns None
OnDownloadError(t) == Finish(t, None)

IsOver(t) == t.pc \in {"done", "raised"}

TaskVarsUnchanged ==
    UNCHANGED <<url, svc, pc, parsed, calls, items, collection_name, cursor, dirs,
                made, folder, mode, collected, downloaded, report, nameVars>>

\* the names a call works with: lines 136-140 or 155-159, then lines 40-42
Started(t) ==
    [t EXCEPT !.query = build_query(t.track),
              !.base = BaseFilename(t.track),
              !.final_path = FinalPath(t.dir, BaseFilename(t.track))]

\* the call starts and searches:
\* ydl.extract_info("ytsearch:" + query, download=False), lines 59-61
Search(i) ==
    /\ tasks[i].pc = "queued"
    /\ \E outcome \in {"raise", "empty", "found"} :
        tasks' = [tasks EXCEPT ![i] =
                    CASE outcome = "raise" -> OnDownloadError(Started(@))
                      [] outcome = "empty" -> Finish(Started(@), None)
                      [] OTHER -> [Started(@) EXCEPT !.pc = "download", !.found = TRUE]]
    /\ finished' = IF IsOver(tasks'[i]) THEN Append(finished, i) ELSE finished
    /\ UNCHANGED files
    /\ TaskVarsUnchanged

\* ydl.download([video_url]) with the FFmpegExtractAudio postprocessor, line 64
Download(i) ==
    /\ tasks[i].pc = "download"
    /\ \E outcome \in {"raise", "expected", "stray"} :
        /\ tasks' = [tasks EXCEPT ![i] =
                       IF outcome = "raise" THEN OnDownloadError(@)
                       ELSE [@ EXCEPT !.pc = "check", !.fetched = TRUE]]
        /\ files' = CASE outcome = "expected" ->
                           files \cup {Resolve(tasks[i].final_path)}
                      [] outcome = "stray" ->
                           files \cup {Resolve(StrayPath(tasks[i].dir, tasks[i].base))}
                      [] OTHER -> files
    /\ finished' = IF IsOver(tasks'[i]) THEN Append(finished, i) ELSE finished
    /\ TaskVarsUnchanged

\* lines 65-66 and 69
CheckPath(i) ==
    /\ tasks[i].pc = "check"
    /\ tasks' = [tasks EXCEPT ![i] =
                   Finish(@, ExistsCheck(@.final_path, dirs, files))]
    /\ finished' = Append(finished, i)
    /\ UNCHANGED files
    /\ TaskVarsUnchanged

----------------------------------------------------------------------------
(* main.py:142-145 and 162-174 *)

\* the single download returned
ReportSingle ==
    /\ pc = "DownloadSingle"
    /\ IsOver(tasks[1])
    /\ IF tasks[1].pc = "raised"
       THEN pc' = "Raised" /\ report' = report
       ELSE /\ pc' = "Done"
            /\ report' = IF Truthy(tasks[1].result)
                         THEN [event |-> "single_ok", count |-> 1]
                         ELSE [event |-> "single_failed", count |-> 0]
    /\ UNCHANGED <<url, svc, parsed, calls, items, collection_name, cursor, dirs,
                   files, made, folder, mode, tasks, finished, collected,
                   downloaded, nameVars>>

\* the futures taken as they complete
CompletionOrder(k, fin) == IF Len(fin) > k THEN fin[k + 1] ELSE 0

\* main.py:166: the futures are taken in the order of the list
NextFuture(k, fin) == k + 1

\* a loop that stops at the first absent result
BreakOnFailure(k, ts) == k = Len(ts) \/ (k >= 1 /\ ~Truthy(ts[k].result))

\* main.py:166: the loop ends when every future has been taken
LoopDone(k, ts) == k = Len(ts)

\* future.result(), main.py:167-169
Collect ==
    /\ pc = "Collect"
    /\ ~LoopDone(collected, tasks)
    /\ LET i == NextFuture(collected, finished) IN
        /\ i \in 1..Len(tasks)
        /\ IsOver(tasks[i])
        /\ IF tasks[i].pc = "raised"
           THEN pc' = "Unwind" /\ UNCHANGED <<collected, downloaded>>
           ELSE /\ collected' = collected + 1
                /\ downloaded' = IF Truthy(tasks[i].result)
                                 THEN Append(downloaded, tasks[i].result)
                                 ELSE downloaded
                /\ pc' = pc
    /\ UNCHANGED <<url, svc, parsed, calls, items, collection_name, cursor, dirs,
                   files, made, folder, mode, tasks, finished, report, nameVars>>

\* the end of the with block, main.py:164: shutdown(wait=True)
ExitPool ==
    /\ pc \in {"Collect", "Unwind"}
    /\ pc = "Collect" => LoopDone(collected, tasks)
    /\ \A i \in 1..Len(tasks) : IsOver(tasks[i])
    /\ pc' = IF pc = "Unwind" THEN "Raised" ELSE "Report"
    /\ UNCHANGED <<url, svc, parsed, calls, items, collection_name, cursor, dirs,
                   files, made, folder, mode, tasks, finished, collected,
                   downloaded, report, nameVars>>

\* the number of distinct files
CountDistinct(d) == Cardinality(Range(d))

\* len(downloaded), main.py:172
SuccessCount(d) == Len(d)

\* main.py:171-174
Report ==
    /\ pc = "Report"
    /\ report' = IF downloaded # <<>>
                 THEN [event |-> "many_ok", count |-> SuccessCount(downloaded)]
                 ELSE [event |-> "many_failed", count |-> 0]
    /\ pc' = "Done"
    /\ UNCHANGED <<url, svc, parsed, calls, items, collection_name, cursor, dirs,
                   files, made, folder, mode, tasks, finished, collected,
                   downloaded, nameVars>>

Next ==
    \/ ParseURL
    \/ FetchCatalog
    \/ AlbumTracks
    \/ AlbumLoop
    \/ PreparePaths
    \/ Dispatch
    \/ Submit
    \/ \E i \in DOMAIN tasks : Search(i)
    \/ \E i \in DOMAIN tasks : Download(i)
    \/ \E i \in DOMAIN tasks : CheckPath(i)
    \/ ReportSingle
    \/ Collect
    \/ ExitPool
    \/ Report

Spec == Init /\ [][Next]_vars

----------------------------------------------------------------------------
(* extract_spotify_id on its own, over a family of input strings *)

HostNoDot == <<"o","p","e","n","x","s","p","o","t","i","f","y",".","c","o","m","/">>
HostUpper == <<"O","p","e","n",".","s","p","o","t","i","f","y",".","c","o","m","/">>

ParseInputs ==
    { pre \o host \o ty \o sep \o id \o suffix :
        pre \in {<<>>, Https, <<"x", " ">>},
        host \in {Host, HostNoDot, HostUpper},
        ty \in {TypeTrack, TypeAlbum, TypePlaylist,
                <<"a","r","t","i","s","t">>, <<"t","r","a","c","k","s">>,
                <<"T","r","a","c","k">>},
        sep \in {<<"/">>, <<>>},
        id \in {<<>>, <<"a","1","Z">>, <<"4","u","?","b">>, <<"_","x">>},
        suffix \in {<<>>, <<"?","s","i","=","1">>,
                    <<" ">> \o Host \o TypeAlbum \o <<"/","z","z","/","q">>} }

InitParse ==
    /\ url \in ParseInputs
    /\ svc = [meta |-> [has |-> {}, name |-> <<>>], entries |-> <<>>]
    /\ pc = "Extract"
    /\ parsed = <<None, None>>
    /\ calls = <<>>
    /\ items = <<>>
    /\ collection_name = <<>>
    /\ cursor = 0
    /\ dirs = {<<>>, Resolve(Cwd)}
    /\ files = {}
    /\ made = <<>>
    /\ folder = None
    /\ mode = "none"
    /\ tasks = <<>>
    /\ finished = <<>>
    /\ collected = 0
    /\ downloaded = <<>>
    /\ report = NoReport
    /\ nameIn = NoTrack
    /\ nameOut = None

\* url_type, spotify_id = extract_spotify_id(spotify_url), main.py:118
Extract ==
    /\ pc = "Extract"
    /\ parsed' = extract_spotify_id(url)
    /\ pc' = "Extracted"
    /\ UNCHANGED <<url, svc, calls, items, collection_name, cursor, dirs, files,
                   made, folder, mode, tasks, finished, collected, downloaded,
                   report, nameVars>>

SpecParse == InitParse /\ [][Extract]_vars

----------------------------------------------------------------------------
(* the base filename on its own, over a family of track records *)

TitleChars == Illegal \cup {"a", " ", "-"}

Titles == UNION {[1..n -> TitleChars] : n \in 0..MaxTitleLen}

ArtistPool == {<<>>, <<"a">>, <<"?">>, <<"/", ":">>}

ArtistLists == UNION {[1..n -> ArtistPool] : n \in 0..MaxArtists}

TrackInputs ==
    {[has |-> {"artists", "name"}, artists |-> a, name |-> n] :
        a \in ArtistLists, n \in Titles}
    \cup {[has |-> {"artists"}, artists |-> a, name |-> <<>>] : a \in ArtistLists}
    \cup {[has |-> {"name"}, artists |-> <<>>, name |-> n] : n \in Titles}
    \cup {NoTrack}

InitName ==
    /\ url = <<>>
    /\ svc = [meta |-> [has |-> {}, name |-> <<>>], entries |-> <<>>]
    /\ pc = "Derive"
    /\ parsed = <<None, None>>
    /\ calls = <<>>
    /\ items = <<>>
    /\ collection_name = <<>>
    /\ cursor = 0
    /\ dirs = {<<>>, Resolve(Cwd)}
    /\ files = {}
    /\ made = <<>>
    /\ folder = None
    /\ mode = "none"
    /\ tasks = <<>>
    /\ finished = <<>>
    /\ collected = 0
    /\ downloaded = <<>>
    /\ report = NoReport
    /\ nameIn \in TrackInputs
    /\ nameOut = None

\* base_filename = sanitize_filename(f"{artist} - {title}"), main.py:138-140, 156-158
Derive ==
    /\ pc = "Derive"
    /\ nameOut' = BaseFilename(nameIn)
    /\ pc' = "Derived"
    /\ UNCHANGED <<url, restVars, nameIn>>

SpecName == InitName /\ [][Derive]_vars

----------------------------------------------------------------------------
(* The properties. *)

InManyRun == mode = "many"

Succeeded(i) == tasks[i].pc = "done" /\ tasks[i].result # None

Failed(i) == tasks[i].pc = "done" /\ tasks[i].result = None

\* the string holds open.spotify.com/<type>/ followed by an alphanumeric
PatternAt(u, i, ty) ==
    /\ i + Len(Host) + Len(ty) + 1 <= Len(u)
    /\ u[i] = "o"
    /\ SubSeq(u, i, i + Len(Host) + Len(ty)) = Host \o ty \o <<"/">>
    /\ u[i + Len(Host) + Len(ty) + 1] \in AlNum

HasCatalogPattern(u) ==
    \E i \in 1..Len(u) : \E ty \in Range(UrlTypes) : PatternAt(u, i, ty)

\* C1: in a collection run over N >= 2 tracks of which M tasks report a file
\* path and N-M report absence, the success count that main() reports at the
\* end is M (with the failure message exactly when M = 0), and the run does
\* not raise.
C1_ReportedCountIsM ==
    InManyRun =>
        /\ pc \notin {"Unwind", "Raised"}
        /\ pc = "Done" =>
             /\ report.count = Cardinality({i \in DOMAIN tasks : Succeeded(i)})
             /\ report.event = IF report.count = 0 THEN "many_failed" ELSE "many_ok"

\* a finished collection run of two tracks, one reporting a path, one absence
C1_Witness ==
    /\ InManyRun /\ pc = "Done" /\ Len(tasks) = 2
    /\ \E i, j \in DOMAIN tasks : Succeeded(i) /\ Failed(j)
    /\ report = [event |-> "many_ok", count |-> 1]

\* C2: a single-track run (type "track", or exactly one item fetched) creates
\* no collection subdirectory and downloads inline into the downloads
\* directory; a multi-track run has, before any download starts, a subdirectory
\* of the downloads directory whose name is the sanitized collection name.
C2_CollectionFolder ==
    /\ mode = "single" =>
         /\ Len(tasks) = 1 /\ tasks[1].dir = DownloadsDir
         /\ \A k \in DOMAIN made : made[k] = DownloadsDir
    /\ (InManyRun /\ Len(items) >= 2) =>
         /\ Resolve(folder) \in dirs
         /\ Resolve(folder) =
              Append(Resolve(DownloadsDir), sanitize_filename(collection_name))
         /\ \A i \in DOMAIN tasks : tasks[i].dir = folder

\* C3: in a collection run one task is submitted per track, main() gets to its
\* report only after every submitted task has finished and every future has
\* been taken, and a task that reports absence neither cancels a sibling nor
\* aborts the run.
C3_ReportAfterAllTasks ==
    InManyRun =>
        /\ pc \notin {"Unwind", "Raised"}
        /\ pc \in {"Report", "Done"} =>
             /\ Len(tasks) = Len(items)
             /\ \A i \in DOMAIN tasks :
                    tasks[i].track = items[i] /\ tasks[i].pc = "done"
             /\ collected = Len(tasks)
        /\ pc = "Done" => report.event \in {"many_ok", "many_failed"}

\* the report is reached although a task failed, and a sibling that was still
\* running when it failed went on to succeed
C3_Witness ==
    /\ InManyRun /\ pc = "Report" /\ Len(finished) = 2
    /\ Failed(finished[1]) /\ Succeeded(finished[2])
    /\ tasks[finished[2]].fetched

RECURSIVE SuccessesUpTo(_)
SuccessesUpTo(k) ==
    IF k = 0 THEN <<>>
    ELSE IF tasks[k].result # None THEN Append(SuccessesUpTo(k - 1), tasks[k].result)
    ELSE SuccessesUpTo(k - 1)

\* C4: whatever the interleaving and completion order of the tasks, the list
\* of collected results holds the non-absent results of the futures taken so
\* far in submission order: the result of track i precedes that of track j
\* whenever i < j.
C4_SubmissionOrder ==
    /\ collected <= Len(tasks)
    /\ downloaded = SuccessesUpTo(collected)

\* the second task completed first, both succeeded with different files, and
\* both results have been collected
C4_Witness ==
    /\ finished = <<2, 1>>
    /\ Len(downloaded) = 2
    /\ downloaded[1] # downloaded[2]

\* C5: download_song never propagates an exception; it reports absence when
\* the search finds nothing or the search, fetch or transcode step fails; it
\* reports a path only when a result was found, the download step completed
\* and the path <destination>/<base filename>.mp3, which is the path it
\* reports, exists on disk.
C5_DownloadContract ==
    \A i \in DOMAIN tasks :
        /\ tasks[i].pc # "raised"
        /\ tasks[i].pc = "done" =>
             /\ (~tasks[i].found \/ ~tasks[i].fetched) => tasks[i].result = None
             /\ tasks[i].result # None =>
                  LET where == Resolve(tasks[i].result) IN
                  /\ tasks[i].found /\ tasks[i].fetched
                  /\ where \in files
                  /\ where = Append(Resolve(tasks[i].dir), tasks[i].base \o Mp3)

\* a call whose download step completed without the expected file reports
\* absence, and another call reports its path
C5_Witness ==
    \E i, j \in DOMAIN tasks :
        /\ Failed(i) /\ tasks[i].fetched
        /\ Succeeded(j)

\* C6: when the URL does not match, main() ends without any catalog request;
\* when the catalog fetch raises, main() ends after logging; in both cases no
\* directory is created, no download is started and main() does not raise.
C6_EarlyTermination ==
    /\ pc # "Raised"
    /\ (pc # "ParseURL" /\ ~HasCatalogPattern(Strip(url))) =>
         /\ pc = "Done" /\ report.event = "invalid_url"
         /\ calls = <<>>
    /\ report.event \in {"invalid_url", "fetch_failed"} =>
         /\ pc = "Done"
         /\ made = <<>> /\ tasks = <<>> /\ files = {}
         /\ folder = None /\ mode = "none"

\* the fetch of an album failed at a per-track lookup, after the album and its
\* listing were fetched, and the downloads directory was not created
C6_Witness ==
    /\ report.event = "fetch_failed" /\ pc = "Done"
    /\ Len(calls) >= 3
    /\ Resolve(DownloadsDir) \notin dirs

\* the identifiers of the per-track lookups among the requests, in order
SecondaryLookups ==
    LET later == SubSeq(calls, 2, Len(calls))
        hits == SelectSeq(later, LAMBDA c : c[1] = TypeTrack)
    IN  [k \in DOMAIN hits |-> hits[k][2]]

ListedIds == SelectSeq(svc.entries, LAMBDA e : e \in TrackIds)

FetchReturned ==
    /\ pc \notin {"ParseURL", "FetchCatalog", "AlbumTracks", "AlbumLoop"}
    /\ report.event \notin {"invalid_url", "fetch_failed"}

\* C7: for an album, get_items_from_spotify issues exactly one per-track lookup
\* for each track identifier of the album listing, in listing order, and
\* returns the results of those lookups in that order; for a playlist it
\* issues no per-track lookup and returns the embedded track objects.
C7_SecondaryLookups ==
    /\ (parsed[1] = TypeAlbum /\ FetchReturned) =>
         /\ SecondaryLookups = ListedIds
         /\ items = [k \in DOMAIN ListedIds |-> Catalog(ListedIds[k])]
    /\ (parsed[1] = TypeAlbum /\ pc = "AlbumLoop") =>
         /\ Len(SecondaryLookups) <= Len(ListedIds)
         /\ SecondaryLookups = SubSeq(ListedIds, 1, Len(SecondaryLookups))
    /\ (parsed[1] = TypePlaylist /\ FetchReturned) =>
         /\ Len(calls) = 1
         /\ items = [k \in DOMAIN ListedIds |-> Catalog(ListedIds[k])]

\* an album listing of two entries, one of them without an identifier: one
\* lookup was issued and one item returned
C7_Witness ==
    /\ parsed[1] = TypeAlbum /\ pc = "PreparePaths"
    /\ Len(svc.entries) = 2 /\ Len(ListedIds) = 1
    /\ Len(calls) = 3 /\ Len(items) = 1

\* C8: extract_spotify_id is total: for a string that contains the catalog
\* pattern it returns the captured substrings of the leftmost match, a type
\* among track, album and playlist and the whole non-empty alphanumeric run
\* after it; for any other string it returns (None, None).
C8_ParserTotal ==
    pc = "Extracted" =>
        IF HasCatalogPattern(url)
        THEN /\ parsed[1] \in Range(UrlTypes)
             /\ parsed[2] # <<>> /\ Range(parsed[2]) \subseteq AlNum
             /\ \E i \in 1..Len(url) :
                  LET m == Host \o parsed[1] \o <<"/">> \o parsed[2] IN
                  /\ StartsWithAt(url, i, m)
                  /\ i + Len(m) <= Len(url) => url[i + Len(m)] \notin AlNum
                  /\ \A j \in 1..(i - 1) : \A ty \in Range(UrlTypes) :
                         ~PatternAt(url, j, ty)
        ELSE parsed = <<None, None>>

\* a URL with a scheme before the host and a query string after the
\* identifier has been parsed into type and identifier
C8_Witness ==
    /\ pc = "Extracted"
    /\ Head(url) = "h" /\ url[Len(url)] = "1"
    /\ parsed = <<TypePlaylist, <<"a", "1", "Z">> >>

\* C9: in a multi-track run no two tasks write to the same output file path.
C9_DistinctOutputPaths ==
    \A i, j \in DOMAIN tasks :
        (i # j /\ tasks[i].final_path # None /\ tasks[j].final_path # None)
            => Resolve(tasks[i].final_path) # Resolve(tasks[j].final_path)

\* C10: the base filename derived from a track record is non-empty, whatever
\* the artists and the title, also when they are absent or made only of
\* illegal characters.
C10_BaseFilenameNonEmpty ==
    pc = "Derived" => nameOut # <<>>

\* a record whose artist and title consist of illegal characters only
C10_Witness ==
    /\ pc = "Derived"
    /\ nameIn.has = {"artists", "name"}
    /\ nameIn.artists = << <<"/", ":">> >> /\ nameIn.name = <<"?", "*">>
    /\ nameOut = <<" ", "-", " ">>

====
